---- MODULE Spec2Model ----
(***************************************************************************)
(* Session relay core of the signaling server (src/server.js): the         *)
(* in-memory session Map, the per-connection binding (ws.sessionId,        *)
(* ws.userName), the message handlers, the close handler, the expiry       *)
(* sweep and the keep-alive broadcast.  Every handler is one atomic        *)
(* action (single-threaded event loop, no await inside a handler).         *)
(***************************************************************************)
EXTENDS Integers, Sequences, FiniteSets, TLC

(* ---------------------------------------------------------------------- *)
(* Bounds and input alphabets                                             *)
(* ---------------------------------------------------------------------- *)
NumConns == 3
MaxSteps == 3
MaxTicks == 1
MaxRelays == 2
MaxStarts == 2

\* 4 hours, the age above which the sweep deletes a session
TTL == 14400000

\* the amounts by which the clock advances between two events: a session
\* is seen at an age below, equal to and above the TTL
TickSteps == {TTL, TTL + 1}

Conns == 1..NumConns
SessionIdOrder == <<"s1", "s2">>
UserNameOrder == <<"Alice", "Bob", "Carl">>
TopicOrder == <<"T", "U">>
MessageTypes == {"x"}
Contents == {"m1", "m2"}

Range(f) == {f[i] : i \in DOMAIN f}
SessionIds == Range(SessionIdOrder)
UserNames == Range(UserNameOrder)
Topics == Range(TopicOrder)

\* JavaScript null (the initial ws.sessionId / ws.userName) and undefined
\* (a field missing from the inbound message)
Null == "<null>"
Undefined == "<undefined>"

\* JavaScript truthiness of a string-or-null value
Truthy(v) == v \notin {Null, Undefined, ""}

\* ws.readyState as far as the server observes it; "NONE" is a connection
\* slot the transport has not accepted yet
OPEN == "OPEN"
CLOSING == "CLOSING"
CLOSED == "CLOSED"
NONE == "NONE"

\* ev and out describe the event handled last.  An event that changes
\* neither the store, nor a connection, nor the clock leaves the server in
\* the state the previous event left it in, so whatever can follow it can
\* follow that event as well; the events after it are explored from there
\* and not a second time (idle).
VARIABLES
    sessions,   \* the Map sessionId -> session; DOMAIN sessions = its keys
    conn,       \* per connection: readyState, sessionId, userName
    now,        \* Date.now()
    out,        \* frames written by the last handler, in send order
    ev,         \* the event (inbound frame, close, timer) handled last
    pre,        \* the store and the connections as that event found them
    idle,       \* TRUE when that event changed neither store, binding nor clock
    nsteps,     \* number of state-changing events so far
    nticks,     \* number of clock advances so far
    everBound,  \* per connection: the session ids it has been bound to
    creatorName, \* per session id: the userName of the create_session that
                \* put the session now in the store there, Null if none did
    sent,       \* the relay_message requests accepted so far, in arrival order
    delivered,  \* the message_received frames written so far, in send order,
                \* each with the position in sent of the request it relays
    relayBudget, \* number of relay_message requests still followed on
    activeNegotiations, \* negotiation API: the Map sessionId -> negotiation,
                \* a negotiation being a position in heap
    heap,       \* the negotiation objects made so far, in the order made, each
                \* with the position (pc) its runNegotiation call has reached
    negPre      \* activeNegotiations and heap as the last event found them

vars == <<sessions, conn, now, out, ev, pre, idle, nsteps, nticks, everBound,
          creatorName, sent, delivered, relayBudget,
          activeNegotiations, heap, negPre>>

negVars == <<activeNegotiations, heap, negPre>>

relayVars == <<sent, delivered, relayBudget>>

(* ---------------------------------------------------------------------- *)
(* Helpers                                                                *)
(* ---------------------------------------------------------------------- *)

\* Map.prototype.set / delete on the store
MapSet(m, k, v) == [x \in (DOMAIN m) \cup {k} |-> IF x = k THEN v ELSE m[x]]
MapDelete(m, k) == [x \in (DOMAIN m) \ {k} |-> m[x]]

\* the creator record of a session ends with the session: kept are the
\* records of the ids still in the store
Forget(names, kept) == [k \in DOMAIN names |-> IF k \in kept THEN names[k] ELSE Null]

\* Array.prototype.find for the two predicates the handlers use: the index
\* of the first match, 0 when there is none
\* variant: the isCreator flag is not looked at
FindCreator_AnyRole(parts, userName) ==
    LET hits == {i \in 1..Len(parts) : parts[i].userName = userName}
    IN IF hits = {} THEN 0 ELSE CHOOSE i \in hits : \A j \in hits : i <= j

FindCreator(parts, userName) ==
    LET hits == {i \in 1..Len(parts) :
                    parts[i].isCreator /\ parts[i].userName = userName}
    IN IF hits = {} THEN 0 ELSE CHOOSE i \in hits : \A j \in hits : i <= j

\* variant: a returning name is never recognised
FindByName_Never(parts, userName) == 0

\* variant: the test of handleCreateSession, only the creator is recognised
FindByName_CreatorOnly(parts, userName) ==
    IF \E i \in 1..Len(parts) : parts[i].isCreator /\ parts[i].userName = userName
    THEN CHOOSE i \in 1..Len(parts) : parts[i].isCreator /\ parts[i].userName = userName
    ELSE 0

FindByName(parts, userName) ==
    LET hits == {i \in 1..Len(parts) : parts[i].userName = userName}
    IN IF hits = {} THEN 0 ELSE CHOOSE i \in hits : \A j \in hits : i <= j

\* ws.send(JSON.stringify(frame)): written when the socket is open, dropped
\* otherwise
Send(o, c, frame) ==
    IF conn[c].readyState = OPEN THEN Append(o, frame) ELSE o

\* participants.forEach(p => { if (p.ws.readyState === OPEN) p.ws.send(f) }):
\* the participants whose socket is open, in participant order; each of
\* them is sent one frame
OpenParticipants(parts) ==
    SelectSeq(parts, LAMBDA p : conn[p.ws].readyState = OPEN)

Init ==
    /\ sessions = << >>
    /\ conn = [c \in Conns |-> [readyState |-> NONE, sessionId |-> Null, userName |-> Null]]
    /\ now = 0
    /\ out = << >>
    /\ ev = [type |-> "init"]
    /\ pre = [sessions |-> << >>, conn |-> conn]
    /\ idle = FALSE
    /\ nsteps = 0
    /\ nticks = 0
    /\ everBound = [c \in Conns |-> {}]
    /\ creatorName = [k \in SessionIds |-> Null]
    /\ sent = << >>
    /\ delivered = << >>
    /\ relayBudget = 0
    /\ activeNegotiations = << >>
    /\ heap = << >>
    /\ negPre = [activeNegotiations |-> << >>, heap |-> << >>]

(* ---------------------------------------------------------------------- *)
(* Transport events                                                       *)
(* ---------------------------------------------------------------------- *)

\* wss.on('connection'): a new socket, unbound
Connect(c) ==
    /\ conn[c].readyState = NONE
    /\ \A d \in Conns : d < c => conn[d].readyState # NONE
    /\ conn' = [conn EXCEPT ![c] = [readyState |-> OPEN, sessionId |-> Null, userName |-> Null]]
    /\ ~idle
    /\ pre' = [sessions |-> sessions, conn |-> conn]
    /\ UNCHANGED relayVars
    /\ UNCHANGED negVars
    /\ idle' = FALSE
    /\ ev' = [type |-> "connection", ws |-> c]
    /\ out' = << >>
    /\ UNCHANGED <<sessions, now, nsteps, nticks, everBound, creatorName>>

\* the socket leaves the OPEN state (peer close frame, network drop); the
\* 'close' event has not been emitted yet
BeginClose(c) ==
    /\ conn[c].readyState = OPEN
    /\ nsteps < MaxSteps
    /\ nsteps' = nsteps + 1
    /\ conn' = [conn EXCEPT ![c].readyState = CLOSING]
    /\ ~idle
    /\ pre' = [sessions |-> sessions, conn |-> conn]
    /\ UNCHANGED relayVars
    /\ UNCHANGED negVars
    /\ idle' = FALSE
    /\ ev' = [type |-> "closing", ws |-> c]
    /\ out' = << >>
    /\ UNCHANGED <<sessions, now, nticks, everBound, creatorName>>

\* Session ids, user names and topics are opaque to the server (it only
\* compares them for equality), so a request draws each of them from the
\* values the state already holds plus the first value, in a fixed order,
\* that the state does not hold yet.
UsedSessionIds ==
    (DOMAIN sessions) \cup {conn[c].sessionId : c \in Conns}

UsedUserNames ==
    {conn[c].userName : c \in Conns} \cup
    UNION {{sessions[k].participants[i].userName :
              i \in 1..Len(sessions[k].participants)} : k \in DOMAIN sessions}

UsedTopics == {sessions[k].topic : k \in DOMAIN sessions}

Fresh(order, used) ==
    {order[i] : i \in {j \in DOMAIN order :
                         order[j] \in used \/ \A k \in 1..(j-1) : order[k] \in used}}

(* ---------------------------------------------------------------------- *)
(* Inbound frames (ws.on('message') and the three handlers)               *)
(* ---------------------------------------------------------------------- *)

ErrorFrame(c, text) == [to |-> c, type |-> "error", message |-> text]

SessionCreatedFrame(c, sessionId, topic) ==
    [to |-> c, type |-> "session_created", sessionId |-> sessionId, topic |-> topic]

\* variant: the count is taken before the joiner is added
ParticipantJoinedFrame_StaleCount(c, userName, topic, count) ==
    [to |-> c, type |-> "participant_joined", userName |-> userName,
     topic |-> topic, participantCount |-> count - 1]

ParticipantJoinedFrame(c, userName, topic, count) ==
    [to |-> c, type |-> "participant_joined", userName |-> userName,
     topic |-> topic, participantCount |-> count]

\* variant: from names the receiving participant
MessageReceivedFrame_FromPeer(p, c, messageType, content) ==
    [to |-> p.ws, type |-> "message_received", messageType |-> messageType,
     content |-> content, from |-> p.userName, timestamp |-> now]

\* the frame relayed to participant p for a relay_message of connection c
MessageReceivedFrame(p, c, messageType, content) ==
    [to |-> p.ws, type |-> "message_received", messageType |-> messageType,
     content |-> content, from |-> conn[c].userName, timestamp |-> now]

MessageSentFrame(c, messageType, content) ==
    [to |-> c, type |-> "message_sent", messageType |-> messageType,
     content |-> content, timestamp |-> now]

ParticipantLeftFrame(p, c) ==
    [to |-> p.ws, type |-> "participant_left", userName |-> conn[c].userName]

\* ws.sessionId = sessionId; ws.userName = userName
Bind(cn, c, sessionId, userName) ==
    [cn EXCEPT ![c].sessionId = sessionId, ![c].userName = userName]

\* variant: a change of the participant list renews the creation time
WithParticipants_Touch(session, parts) ==
    [session EXCEPT !.participants = parts, !.createdAt = now]

\* the session after its participant list has been changed in place (ws
\* replaced, participant pushed): nothing else of it is assigned
WithParticipants(session, parts) == [session EXCEPT !.participants = parts]

\* creator.ws = ws / existingParticipant.ws = ws
\* variant: the participant is removed and pushed again, not a creator
ReplaceWs_Reseat(parts, i, c) ==
    Append(SubSeq(parts, 1, i - 1) \o SubSeq(parts, i + 1, Len(parts)),
           [userName |-> parts[i].userName, ws |-> c, isCreator |-> FALSE])

ReplaceWs(parts, i, c) == [parts EXCEPT ![i].ws = c]

\* variant: the first participant is not flagged as the creator
CreatedSession_NotCreator(sessionId, topic, userName, c) ==
    [sessionId |-> sessionId, topic |-> topic, createdAt |-> now,
     participants |-> <<[userName |-> userName, ws |-> c, isCreator |-> FALSE]>>]

\* the session object create_session stores
CreatedSession(sessionId, topic, userName, c) ==
    [sessionId |-> sessionId, topic |-> topic, createdAt |-> now,
     participants |-> <<[userName |-> userName, ws |-> c, isCreator |-> TRUE]>>]

\* variant: the recreated session gets no creation time of its own
RecreatedSession_NoTime(sessionId, topic) ==
    [sessionId |-> sessionId, topic |-> topic, createdAt |-> 0,
     participants |-> << >>]

\* the session object join_session stores for an unknown id that comes
\* with a topic
RecreatedSession(sessionId, topic) ==
    [sessionId |-> sessionId, topic |-> topic, createdAt |-> now,
     participants |-> << >>]

\* variant: every participant added is flagged as a creator
PushParticipant_Creator(parts, userName, c) ==
    Append(parts, [userName |-> userName, ws |-> c, isCreator |-> TRUE])

\* session.participants.push({ userName, ws, isCreator: false })
PushParticipant(parts, userName, c) ==
    Append(parts, [userName |-> userName, ws |-> c, isCreator |-> FALSE])

\* variant: every session counts as full
SessionIsFull_Always(parts) == TRUE

\* variant: the capacity test is off by one
SessionIsFull_OffByOne(parts) == Len(parts) > 2

\* session.participants.length >= 2
SessionIsFull(parts) == Len(parts) >= 2

\* variant: the reply echoes the topic of the request
ReconnectTopic_Supplied(session, topic) == topic

\* the topic the reply to a reconnecting creator carries
ReconnectTopic(session, topic) == session.topic

handleCreateSession(c, sessionId, topic, userName) ==
    IF sessionId \in DOMAIN sessions
    THEN LET session == sessions[sessionId]
             creator == FindCreator(session.participants, userName)
         IN IF creator # 0
            THEN \* creator reconnecting
                 /\ sessions' = [sessions EXCEPT ![sessionId] = WithParticipants(session,
                                    ReplaceWs(session.participants, creator, c))]
                 /\ conn' = Bind(conn, c, sessionId, userName)
                 /\ everBound' = [everBound EXCEPT ![c] = @ \cup {sessionId}]
                 /\ out' = Send(<< >>, c, SessionCreatedFrame(c, sessionId,
                                             ReconnectTopic(session, topic)))
                 /\ UNCHANGED creatorName
            ELSE /\ out' = Send(<< >>, c, ErrorFrame(c, "Session already exists"))
                 /\ UNCHANGED <<sessions, conn, everBound, creatorName>>
    ELSE /\ sessions' = MapSet(sessions, sessionId,
                               CreatedSession(sessionId, topic, userName, c))
         /\ conn' = Bind(conn, c, sessionId, userName)
         /\ everBound' = [everBound EXCEPT ![c] = @ \cup {sessionId}]
         /\ out' = Send(<< >>, c, SessionCreatedFrame(c, sessionId, topic))
         /\ creatorName' = [creatorName EXCEPT ![sessionId] = userName]

CreateSession(c, sessionId, topic, userName) ==
    /\ conn[c].readyState = OPEN
    /\ ~idle
    /\ pre' = [sessions |-> sessions, conn |-> conn]
    /\ UNCHANGED relayVars
    /\ UNCHANGED negVars
    /\ ev' = [type |-> "create_session", ws |-> c, sessionId |-> sessionId,
              topic |-> topic, userName |-> userName]
    /\ handleCreateSession(c, sessionId, topic, userName)
    /\ idle' = (<<sessions', conn'>> = <<sessions, conn>>)
    /\ nsteps < MaxSteps \/ idle'
    /\ nsteps' = IF idle' THEN nsteps ELSE nsteps + 1
    /\ UNCHANGED <<now, nticks>>

\* variant: a topic in the request replaces the topic of the session
Looked_Retopic(sessionId, topic) ==
    IF sessionId \in DOMAIN sessions
    THEN IF Truthy(topic) THEN [sessions EXCEPT ![sessionId].topic = topic] ELSE sessions
    ELSE MapSet(sessions, sessionId, RecreatedSession(sessionId, topic))

\* let session = sessions.get(sessionId); if (!session && topic) { session =
\* {...}; sessions.set(sessionId, session) }: the store after the lookup
Looked(sessionId, topic) ==
    IF sessionId \in DOMAIN sessions THEN sessions
    ELSE MapSet(sessions, sessionId, RecreatedSession(sessionId, topic))

handleJoinSession(c, sessionId, userName, topic) ==
    /\ UNCHANGED creatorName
    /\ IF sessionId \notin DOMAIN sessions /\ ~Truthy(topic)
       THEN /\ out' = Send(<< >>, c, ErrorFrame(c, "Session not found or expired"))
            /\ UNCHANGED <<sessions, conn, everBound>>
       ELSE LET \* the store after the lookup: recreated from the topic if absent
                store1 == Looked(sessionId, topic)
                session == store1[sessionId]
                existingParticipant == FindByName(session.participants, userName)
            IN IF existingParticipant = 0 /\ SessionIsFull(session.participants)
               THEN /\ sessions' = store1
                    /\ out' = Send(<< >>, c, ErrorFrame(c, "Session is full"))
                    /\ UNCHANGED <<conn, everBound>>
               ELSE LET parts == IF existingParticipant # 0
                                 THEN ReplaceWs(session.participants, existingParticipant, c)
                                 ELSE PushParticipant(session.participants, userName, c)
                    IN /\ sessions' = [store1 EXCEPT ![sessionId] = WithParticipants(session, parts)]
                       /\ conn' = Bind(conn, c, sessionId, userName)
                       /\ everBound' = [everBound EXCEPT ![c] = @ \cup {sessionId}]
                       /\ out' = LET live == OpenParticipants(parts)
                                  IN [i \in 1..Len(live) |->
                                        ParticipantJoinedFrame(live[i].ws, userName,
                                                               session.topic, Len(parts))]

JoinSession(c, sessionId, userName, topic) ==
    /\ conn[c].readyState = OPEN
    /\ ~idle
    /\ pre' = [sessions |-> sessions, conn |-> conn]
    /\ UNCHANGED relayVars
    /\ UNCHANGED negVars
    /\ ev' = [type |-> "join_session", ws |-> c, sessionId |-> sessionId,
              topic |-> topic, userName |-> userName]
    /\ handleJoinSession(c, sessionId, userName, topic)
    /\ idle' = (<<sessions', conn'>> = <<sessions, conn>>)
    /\ nsteps < MaxSteps \/ idle'
    /\ nsteps' = IF idle' THEN nsteps ELSE nsteps + 1
    /\ UNCHANGED <<now, nticks>>

\* variant: the sender is not excluded
RelayTargets_All(parts, c) == parts

\* the participants a relay_message of connection c is forwarded to
RelayTargets(parts, c) == SelectSeq(parts, LAMBDA p : p.ws # c)

\* variant: one text for both refusals
RelayRefusal_OneText(c) ==
    IF \/ ~Truthy(conn[c].sessionId) \/ ~Truthy(conn[c].userName)
       \/ conn[c].sessionId \notin DOMAIN sessions
    THEN "Not connected to a session"
    ELSE ""

\* the two checks handleRelayMessage starts with: the text of the error a
\* relay_message of connection c is refused with, "" when it is accepted
RelayRefusal(c) ==
    IF ~Truthy(conn[c].sessionId) \/ ~Truthy(conn[c].userName)
    THEN "Not connected to a session"
    ELSE IF conn[c].sessionId \notin DOMAIN sessions
    THEN "Session not found"
    ELSE ""

handleRelayMessage(c, messageType, content) ==
    IF RelayRefusal(c) # ""
    THEN out' = Send(<< >>, c, ErrorFrame(c, RelayRefusal(c)))
    ELSE LET session == sessions[conn[c].sessionId]
             live == OpenParticipants(RelayTargets(session.participants, c))
             relayed == [i \in 1..Len(live) |->
                           MessageReceivedFrame(live[i], c, messageType, content)]
         IN out' = Send(relayed, c, MessageSentFrame(c, messageType, content))

\* the frames, each with the position n of the request it relays
Numbered(frames, n) ==
    [i \in 1..Len(frames) |-> [to |-> frames[i].to, content |-> frames[i].content, n |-> n]]

\* variant: the frames written last are put in front of those waiting
Deliver_Front(log, frames) == frames \o log

\* ws.send is called synchronously inside the handler: the frames of one
\* handler run follow those of the runs before it, in forEach order
Deliver(log, frames) == log \o frames

RelayMessage(c, messageType, content) ==
    /\ conn[c].readyState = OPEN
    /\ ~idle
    /\ pre' = [sessions |-> sessions, conn |-> conn]
    /\ UNCHANGED negVars
    /\ idle' = (relayBudget = 0)
    /\ relayBudget' = IF relayBudget = 0 THEN 0 ELSE relayBudget - 1
    /\ ev' = [type |-> "relay_message", ws |-> c, messageType |-> messageType,
              content |-> content]
    /\ handleRelayMessage(c, messageType, content)
    /\ sent' = IF RelayRefusal(c) = "" THEN Append(sent, [ws |-> c, content |-> content])
               ELSE sent
    /\ delivered' = Deliver(delivered, Numbered(SelectSeq(out',
                        LAMBDA f : f.type = "message_received"), Len(sent')))
    /\ UNCHANGED <<sessions, conn, now, nsteps, nticks, everBound, creatorName>>

\* variant: the ping is echoed
PongFrame_Echo(c) == [to |-> c, type |-> "ping"]

\* { type: 'pong' }
PongFrame(c) == [to |-> c, type |-> "pong"]

\* case 'ping'
Ping(c) ==
    /\ conn[c].readyState = OPEN
    /\ ~idle
    /\ pre' = [sessions |-> sessions, conn |-> conn]
    /\ UNCHANGED relayVars
    /\ UNCHANGED negVars
    /\ idle' = TRUE
    /\ ev' = [type |-> "ping", ws |-> c]
    /\ out' = Send(<< >>, c, PongFrame(c))
    /\ UNCHANGED <<sessions, conn, now, nsteps, nticks, everBound, creatorName>>

\* variant: an unknown type is answered with an error
UnknownMessage_Error(c) ==
    /\ conn[c].readyState = OPEN
    /\ ~idle
    /\ pre' = [sessions |-> sessions, conn |-> conn]
    /\ UNCHANGED relayVars
    /\ UNCHANGED negVars
    /\ idle' = TRUE
    /\ ev' = [type |-> "unknown", ws |-> c]
    /\ out' = Send(<< >>, c, ErrorFrame(c, "Unknown message type"))
    /\ UNCHANGED <<sessions, conn, now, nsteps, nticks, everBound, creatorName>>

\* default: a decodable frame of an unknown type is logged and dropped
UnknownMessage(c) ==
    /\ conn[c].readyState = OPEN
    /\ ~idle
    /\ pre' = [sessions |-> sessions, conn |-> conn]
    /\ UNCHANGED relayVars
    /\ UNCHANGED negVars
    /\ idle' = TRUE
    /\ ev' = [type |-> "unknown", ws |-> c]
    /\ out' = << >>
    /\ UNCHANGED <<sessions, conn, now, nsteps, nticks, everBound, creatorName>>

\* variant: the socket is dropped after the error has been sent
MalformedMessage_Drop(c) ==
    /\ conn[c].readyState = OPEN
    /\ ~idle
    /\ pre' = [sessions |-> sessions, conn |-> conn]
    /\ UNCHANGED relayVars
    /\ UNCHANGED negVars
    /\ idle' = FALSE
    /\ ev' = [type |-> "malformed", ws |-> c]
    /\ out' = Send(<< >>, c, ErrorFrame(c, "Invalid message format"))
    /\ conn' = [conn EXCEPT ![c].readyState = CLOSING]
    /\ UNCHANGED <<sessions, now, nsteps, nticks, everBound, creatorName>>

\* JSON.parse throws: the catch block answers the sender.  The events that
\* follow a malformed frame are explored from it.
MalformedMessage(c) ==
    /\ conn[c].readyState = OPEN
    /\ ~idle
    /\ pre' = [sessions |-> sessions, conn |-> conn]
    /\ UNCHANGED relayVars
    /\ UNCHANGED negVars
    /\ idle' = FALSE
    /\ ev' = [type |-> "malformed", ws |-> c]
    /\ out' = Send(<< >>, c, ErrorFrame(c, "Invalid message format"))
    /\ UNCHANGED <<sessions, conn, now, nsteps, nticks, everBound, creatorName>>

(* ---------------------------------------------------------------------- *)
(* ws.on('close')                                                         *)
(* ---------------------------------------------------------------------- *)

\* variant: the participant is looked up by the name bound to the socket
RemoveConnection_ByName(parts, c) ==
    SelectSeq(parts, LAMBDA p : p.userName # conn[c].userName)

\* session.participants.filter(p => p.ws !== ws)
RemoveConnection(parts, c) == SelectSeq(parts, LAMBDA p : p.ws # c)

\* variant: a session left without participants is kept
SessionIsEmpty_Never(parts) == FALSE

\* session.participants.length === 0
SessionIsEmpty(parts) == Len(parts) = 0

CloseHandler(c) ==
    /\ conn[c].readyState = CLOSING
    /\ ~idle
    /\ pre' = [sessions |-> sessions, conn |-> conn]
    /\ UNCHANGED relayVars
    /\ UNCHANGED negVars
    /\ idle' = FALSE
    /\ conn' = [conn EXCEPT ![c].readyState = CLOSED]
    /\ ev' = [type |-> "close", ws |-> c]
    /\ IF Truthy(conn[c].sessionId) /\ Truthy(conn[c].userName)
          /\ conn[c].sessionId \in DOMAIN sessions
       THEN LET sid == conn[c].sessionId
                remaining == RemoveConnection(sessions[sid].participants, c)
                live == OpenParticipants(remaining)
            IN /\ out' = [i \in 1..Len(live) |-> ParticipantLeftFrame(live[i], c)]
               /\ sessions' = IF SessionIsEmpty(remaining)
                              THEN MapDelete(sessions, sid)
                              ELSE [sessions EXCEPT ![sid].participants = remaining]
       ELSE /\ out' = << >>
            /\ UNCHANGED sessions
    /\ creatorName' = Forget(creatorName, DOMAIN sessions')
    /\ UNCHANGED <<now, nsteps, nticks, everBound>>

(* ---------------------------------------------------------------------- *)
(* Timers and the clock                                                   *)
(* ---------------------------------------------------------------------- *)

\* variant: an idle timeout, sessions with participants are kept
Expired_IdleOnly(session, t) ==
    t - session.createdAt > TTL /\ session.participants = << >>

\* variant: a session is expired at the age of the TTL already
Expired_AtTTL(session, t) == t - session.createdAt >= TTL

\* variant: a session is kept while a participant's connection is open
Expired_Unseated(session, t) ==
    /\ t - session.createdAt > TTL
    /\ \A i \in 1..Len(session.participants) :
          conn[session.participants[i].ws].readyState # OPEN

\* now - session.createdAt > 14400000
Expired(session, t) == t - session.createdAt > TTL

\* sessionCleanupInterval callback
Sweep ==
    /\ ~idle
    /\ pre' = [sessions |-> sessions, conn |-> conn]
    /\ UNCHANGED relayVars
    /\ UNCHANGED negVars
    /\ sessions' = [k \in {x \in DOMAIN sessions : ~Expired(sessions[x], now)} |-> sessions[k]]
    /\ idle' = (sessions' = sessions)
    /\ ev' = [type |-> "sweep", deleted |-> (DOMAIN sessions) \ (DOMAIN sessions')]
    /\ out' = << >>
    /\ creatorName' = Forget(creatorName, DOMAIN sessions')
    /\ UNCHANGED <<conn, now, nsteps, nticks, everBound>>

\* the sockets of S in the order of wss.clients, the order they were
\* accepted in
InOrder(S) ==
    [i \in 1..Cardinality(S) |-> CHOOSE c \in S : Cardinality({d \in S : d < c}) = i - 1]

\* variant: no try/catch, a send that throws ends the forEach
PingTargets_Abort(fails) ==
    {c \in Conns : /\ conn[c].readyState = OPEN
                   /\ \A d \in fails : conn[d].readyState = OPEN => c < d}

\* if (ws.readyState === OPEN) { try { ws.send(ping) } catch { log } }: the
\* sockets the ping is written to when send throws for those of fails
PingTargets(fails) == {c \in Conns : conn[c].readyState = OPEN /\ c \notin fails}

\* keepAliveInterval callback: wss.clients.forEach over the accepted
\* sockets, send throwing for the sockets of fails
KeepAliveWith(fails) ==
    /\ ~idle
    /\ pre' = [sessions |-> sessions, conn |-> conn]
    /\ UNCHANGED relayVars
    /\ UNCHANGED negVars
    /\ idle' = TRUE
    /\ ev' = [type |-> "keepalive", fails |-> fails]
    /\ out' = LET clients == InOrder(PingTargets(fails))
              IN [i \in 1..Len(clients) |->
                    [to |-> clients[i], type |-> "ping", timestamp |-> now]]
    /\ UNCHANGED <<sessions, conn, now, nsteps, nticks, everBound, creatorName>>

\* the callback when every send returns
KeepAlive == KeepAliveWith({})

\* wall-clock time passes between two events
Tick(d) ==
    /\ nticks < MaxTicks
    /\ nsteps < MaxSteps
    /\ nticks' = nticks + 1
    /\ nsteps' = nsteps + 1
    /\ now' = now + d
    /\ ~idle
    /\ pre' = [sessions |-> sessions, conn |-> conn]
    /\ UNCHANGED relayVars
    /\ UNCHANGED negVars
    /\ idle' = FALSE
    /\ ev' = [type |-> "tick"]
    /\ out' = << >>
    /\ UNCHANGED <<sessions, conn, everBound, creatorName>>

Next ==
    \/ \E c \in Conns : Connect(c)
    \/ \E c \in Conns : BeginClose(c)
    \/ \E c \in Conns : CloseHandler(c)
    \/ \E c \in Conns, sessionId \in Fresh(SessionIdOrder, UsedSessionIds),
          topic \in Fresh(TopicOrder, UsedTopics),
          userName \in Fresh(UserNameOrder, UsedUserNames) :
          CreateSession(c, sessionId, topic, userName)
    \/ \E c \in Conns, sessionId \in Fresh(SessionIdOrder, UsedSessionIds),
          userName \in Fresh(UserNameOrder, UsedUserNames),
          topic \in Fresh(TopicOrder, UsedTopics) \cup {Undefined} :
          JoinSession(c, sessionId, userName, topic)
    \/ \E c \in Conns, messageType \in MessageTypes, content \in Contents :
          RelayMessage(c, messageType, content)
    \/ \E c \in Conns : Ping(c)
    \/ \E c \in Conns : UnknownMessage(c)
    \/ \E c \in Conns : MalformedMessage(c)
    \/ Sweep
    \/ KeepAlive
    \/ \E d \in TickSteps : Tick(d)

Spec == Init /\ [][Next]_vars

\* The server with a session under way: "Alice" has created "s1" on
\* connection 1 and "Bob" has joined it on connection 2.  The two requests
\* that led here take one step of the budget.
Paired ==
    /\ sessions = MapSet(<< >>, "s1",
          [sessionId |-> "s1", topic |-> "T", createdAt |-> 0,
           participants |-> <<[userName |-> "Alice", ws |-> 1, isCreator |-> TRUE],
                              [userName |-> "Bob", ws |-> 2, isCreator |-> FALSE]>>])
    /\ conn = [c \in Conns |->
                 IF c = 1 THEN [readyState |-> OPEN, sessionId |-> "s1", userName |-> "Alice"]
                 ELSE IF c = 2 THEN [readyState |-> OPEN, sessionId |-> "s1", userName |-> "Bob"]
                 ELSE [readyState |-> NONE, sessionId |-> Null, userName |-> Null]]
    /\ now = 0
    /\ out = <<[to |-> 1, type |-> "participant_joined", userName |-> "Bob",
                topic |-> "T", participantCount |-> 2],
               [to |-> 2, type |-> "participant_joined", userName |-> "Bob",
                topic |-> "T", participantCount |-> 2]>>
    /\ ev = [type |-> "join_session", ws |-> 2, sessionId |-> "s1",
             topic |-> Undefined, userName |-> "Bob"]
    /\ pre = [sessions |-> MapSet(<< >>, "s1",
                 [sessionId |-> "s1", topic |-> "T", createdAt |-> 0,
                  participants |-> <<[userName |-> "Alice", ws |-> 1, isCreator |-> TRUE]>>]),
              conn |-> [c \in Conns |->
                 IF c = 1 THEN [readyState |-> OPEN, sessionId |-> "s1", userName |-> "Alice"]
                 ELSE IF c = 2 THEN [readyState |-> OPEN, sessionId |-> Null, userName |-> Null]
                 ELSE [readyState |-> NONE, sessionId |-> Null, userName |-> Null]]]
    /\ idle = FALSE
    /\ nticks = 0
    /\ everBound = [c \in Conns |-> IF c \in {1, 2} THEN {"s1"} ELSE {}]
    /\ creatorName = [k \in SessionIds |-> IF k = "s1" THEN "Alice" ELSE Null]
    /\ sent = << >>
    /\ delivered = << >>
    /\ activeNegotiations = << >>
    /\ heap = << >>
    /\ negPre = [activeNegotiations |-> << >>, heap |-> << >>]

InitPaired == Paired /\ nsteps = 1 /\ relayBudget = 0

SpecPaired == InitPaired /\ [][Next]_vars

\* The same session with the budget spent on relay_message requests: up to
\* MaxRelays of them are followed on, next to one other step.
InitOrdered == Paired /\ nsteps = MaxSteps - 1 /\ relayBudget = MaxRelays

SpecOrdered == InitOrdered /\ [][Next]_vars

(* ---------------------------------------------------------------------- *)
(* Sends that throw.  In the handlers above ws.send returns for every     *)
(* open socket.  Below, the send to one open socket f throws while one    *)
(* handler runs.  Only the keep-alive callback wraps its send in          *)
(* try/catch; an exception of a send inside handleJoinSession or          *)
(* handleRelayMessage ends the forEach and the handler, and is caught by  *)
(* the catch of the 'message' listener, which answers the sender with     *)
(* "Invalid message format"; an exception inside the 'close' listener is  *)
(* caught by nothing and ends the process.                                *)
(* ---------------------------------------------------------------------- *)

\* the send to socket f is one of those a forEach over live makes
Reaches(live, f) == \E i \in 1..Len(live) : live[i].ws = f

\* the participants a forEach over live has sent to when the send to f
\* throws: those before the first participant of socket f
Before(live, f) ==
    SubSeq(live, 1, (CHOOSE i \in 1..Len(live) :
                        live[i].ws = f /\ \A j \in 1..(i - 1) : live[j].ws # f) - 1)

\* case 'join_session' to an existing session, the send of
\* participant_joined to socket f throwing
JoinSessionThrows(c, sessionId, userName, f) ==
    /\ conn[c].readyState = OPEN
    /\ ~idle
    /\ f # c
    /\ sessionId \in DOMAIN sessions
    /\ LET session == sessions[sessionId]
           existingParticipant == FindByName(session.participants, userName)
           parts == IF existingParticipant # 0
                    THEN ReplaceWs(session.participants, existingParticipant, c)
                    ELSE PushParticipant(session.participants, userName, c)
           live == OpenParticipants(parts)
       IN /\ ~(existingParticipant = 0 /\ SessionIsFull(session.participants))
          /\ Reaches(live, f)
          /\ sessions' = [sessions EXCEPT ![sessionId] = WithParticipants(session, parts)]
          /\ conn' = Bind(conn, c, sessionId, userName)
          /\ everBound' = [everBound EXCEPT ![c] = @ \cup {sessionId}]
          /\ out' = LET reached == Before(live, f)
                    IN Send([i \in 1..Len(reached) |->
                               ParticipantJoinedFrame(reached[i].ws, userName,
                                                      session.topic, Len(parts))],
                            c, ErrorFrame(c, "Invalid message format"))
    /\ pre' = [sessions |-> sessions, conn |-> conn]
    /\ ev' = [type |-> "join_session", ws |-> c, sessionId |-> sessionId,
              topic |-> Undefined, userName |-> userName, thrown |-> f]
    /\ idle' = (<<sessions', conn'>> = <<sessions, conn>>)
    /\ nsteps < MaxSteps \/ idle'
    /\ nsteps' = IF idle' THEN nsteps ELSE nsteps + 1
    /\ UNCHANGED relayVars
    /\ UNCHANGED negVars
    /\ UNCHANGED <<now, nticks, creatorName>>

\* case 'relay_message' of a bound connection, the send of
\* message_received to socket f throwing
RelayMessageThrows(c, messageType, content, f) ==
    /\ conn[c].readyState = OPEN
    /\ ~idle
    /\ RelayRefusal(c) = ""
    /\ LET session == sessions[conn[c].sessionId]
           live == OpenParticipants(RelayTargets(session.participants, c))
           reached == Before(live, f)
       IN /\ Reaches(live, f)
          /\ out' = Send([i \in 1..Len(reached) |->
                             MessageReceivedFrame(reached[i], c, messageType, content)],
                          c, ErrorFrame(c, "Invalid message format"))
    /\ pre' = [sessions |-> sessions, conn |-> conn]
    /\ ev' = [type |-> "relay_message", ws |-> c, messageType |-> messageType,
              content |-> content, thrown |-> f]
    /\ idle' = (relayBudget = 0)
    /\ relayBudget' = IF relayBudget = 0 THEN 0 ELSE relayBudget - 1
    /\ sent' = Append(sent, [ws |-> c, content |-> content])
    /\ delivered' = Deliver(delivered, Numbered(SelectSeq(out',
                        LAMBDA m : m.type = "message_received"), Len(sent')))
    /\ UNCHANGED negVars
    /\ UNCHANGED <<sessions, conn, now, nsteps, nticks, everBound, creatorName>>

\* 'close' listener of a bound connection, the send of participant_left to
\* socket f throwing: the participant list has been filtered, the exception
\* leaves the listener and the process ends
CloseHandlerThrows(c, f) ==
    /\ conn[c].readyState = CLOSING
    /\ ~idle
    /\ Truthy(conn[c].sessionId) /\ Truthy(conn[c].userName)
    /\ conn[c].sessionId \in DOMAIN sessions
    /\ LET sid == conn[c].sessionId
           remaining == RemoveConnection(sessions[sid].participants, c)
           live == OpenParticipants(remaining)
           reached == Before(live, f)
       IN /\ Reaches(live, f)
          /\ out' = [i \in 1..Len(reached) |-> ParticipantLeftFrame(reached[i], c)]
          /\ sessions' = [sessions EXCEPT ![sid].participants = remaining]
    /\ pre' = [sessions |-> sessions, conn |-> conn]
    /\ conn' = [conn EXCEPT ![c].readyState = CLOSED]
    /\ ev' = [type |-> "close", ws |-> c, thrown |-> f]
    /\ idle' = TRUE
    /\ UNCHANGED relayVars
    /\ UNCHANGED negVars
    /\ UNCHANGED <<now, nsteps, nticks, everBound, creatorName>>

\* keepAliveInterval callback, the send of the ping to the open socket f
\* throwing
KeepAliveThrows(f) ==
    /\ conn[f].readyState = OPEN
    /\ KeepAliveWith({f})

NextFaulty ==
    \/ Next
    \/ \E c \in Conns, sessionId \in Fresh(SessionIdOrder, UsedSessionIds),
          userName \in Fresh(UserNameOrder, UsedUserNames), f \in Conns :
          JoinSessionThrows(c, sessionId, userName, f)
    \/ \E c \in Conns, messageType \in MessageTypes, content \in Contents, f \in Conns :
          RelayMessageThrows(c, messageType, content, f)
    \/ \E c \in Conns, f \in Conns : CloseHandlerThrows(c, f)
    \/ \E f \in Conns : KeepAliveThrows(f)

(* ---------------------------------------------------------------------- *)
(* The 'close' listener run once more for a socket it has run for.        *)
(* ---------------------------------------------------------------------- *)

\* variant: the session is used without the test
HasSession_Unchecked(c) == TRUE

\* const session = sessions.get(ws.sessionId); if (session)
HasSession(c) == conn[c].sessionId \in DOMAIN sessions

\* the body of the 'close' listener for a socket whose close has been
\* handled: ws.sessionId and ws.userName are as the first run left them;
\* threw records a TypeError of session.participants on a missing session
CloseHandlerAgain(c) ==
    /\ conn[c].readyState = CLOSED
    /\ ~idle
    /\ pre' = [sessions |-> sessions, conn |-> conn]
    /\ UNCHANGED relayVars
    /\ UNCHANGED negVars
    /\ IF Truthy(conn[c].sessionId) /\ Truthy(conn[c].userName) /\ HasSession(c)
       THEN IF conn[c].sessionId \notin DOMAIN sessions
            THEN /\ ev' = [type |-> "close_again", ws |-> c, threw |-> TRUE]
                 /\ out' = << >>
                 /\ UNCHANGED sessions
            ELSE LET sid == conn[c].sessionId
                     remaining == RemoveConnection(sessions[sid].participants, c)
                     live == OpenParticipants(remaining)
                 IN /\ ev' = [type |-> "close_again", ws |-> c, threw |-> FALSE]
                    /\ out' = [i \in 1..Len(live) |-> ParticipantLeftFrame(live[i], c)]
                    /\ sessions' = IF SessionIsEmpty(remaining)
                                   THEN MapDelete(sessions, sid)
                                   ELSE [sessions EXCEPT ![sid].participants = remaining]
       ELSE /\ ev' = [type |-> "close_again", ws |-> c, threw |-> FALSE]
            /\ out' = << >>
            /\ UNCHANGED sessions
    /\ idle' = (sessions' = sessions)
    /\ creatorName' = Forget(creatorName, DOMAIN sessions')
    /\ UNCHANGED <<conn, now, nsteps, nticks, everBound>>

NextReclose ==
    \/ Next
    \/ \E c \in Conns : CloseHandlerAgain(c)

\* the server, the 'close' listener running again for closed sockets
SpecReclose == Init /\ [][NextReclose]_vars

(* ---------------------------------------------------------------------- *)
(* The server running on without end, its two timers firing again and     *)
(* again.  The clock stops at MaxNow, and a session is created only while *)
(* the clock can still pass its time to live.                             *)
(* ---------------------------------------------------------------------- *)

\* the time the clock is advanced up to
MaxNow == 2 * (TTL + 1)

\* the exploration goes on from the state an event has led to: the step
\* budget, the relay log and the record of the last event start again, the
\* server's state is as it is
Resume ==
    /\ ev.type # "resume"
    /\ idle' = FALSE
    /\ nsteps' = 0
    /\ nticks' = 0
    /\ sent' = << >>
    /\ delivered' = << >>
    /\ ev' = [type |-> "resume"]
    /\ out' = << >>
    /\ pre' = [sessions |-> sessions, conn |-> conn]
    /\ UNCHANGED <<sessions, conn, now, everBound, creatorName, relayBudget>>
    /\ UNCHANGED negVars

\* a session is stored only while the clock can still pass its time to live
InTime == \A k \in DOMAIN sessions' : sessions'[k].createdAt + TTL + 1 <= MaxNow

\* the requests, closes and relays of two clients on session "s1"
LiveRequest ==
    /\ ev.type = "resume"
    /\ \/ \E c \in Conns : BeginClose(c)
       \/ \E c \in Conns : CloseHandler(c)
       \/ \E c \in Conns, userName \in {"Alice", "Bob"} :
             CreateSession(c, "s1", "T", userName)
       \/ \E c \in Conns, userName \in {"Alice", "Bob"}, topic \in {"T", Undefined} :
             JoinSession(c, "s1", userName, topic)
       \/ \E c \in Conns : RelayMessage(c, "x", "m1")
    /\ InTime

\* sessionCleanupInterval fires
LiveSweep == ev.type = "resume" /\ Sweep

\* time passes, up to MaxNow
Advance == ev.type = "resume" /\ now < MaxNow /\ \E d \in TickSteps : Tick(d)

NextLive ==
    \/ LiveRequest
    \/ LiveSweep
    \/ Advance
    \/ Resume

\* setInterval fires the sweep every 5 minutes and time passes, whatever
\* else happens
SpecLive ==
    /\ InitPaired
    /\ [][NextLive]_vars
    /\ WF_vars(Resume)
    /\ SF_vars(LiveSweep)
    /\ SF_vars(Advance)

\* the session of Paired under way, one send at most throwing in a handler
SpecFaulty == InitPaired /\ [][NextFaulty]_vars

(* ---------------------------------------------------------------------- *)
(* Negotiation API (src/ai-negotiation.js): POST /api/start-negotiation,   *)
(* the runNegotiation call it awaits, GET /api/negotiation-status, GET     *)
(* /health and the cleanup timer.  runNegotiation yields at every call of  *)
(* the language-model API, so other requests are handled between two of    *)
(* its calls; what such a call returns is not modelled, only whether it    *)
(* returns or throws.  POST /api/input-feedback reads and writes nothing   *)
(* of this state.                                                          *)
(* ---------------------------------------------------------------------- *)

\* 2 hours, the age above which the cleanup timer deletes a negotiation
NegTTL == 7200000

\* for (let round = 0; round < 3; round++)
Rounds == 3

NegTickSteps == {NegTTL, NegTTL + 1}

\* user1Data / user2Data of a request body: an object with userName and
\* inputs, an object without inputs, or (Undefined) no such field
UserDatas == {"full", "no-inputs"}

serverVars == <<sessions, conn, pre, nsteps, everBound, creatorName,
                sent, delivered, relayBudget>>

\* variant: user2Data is not looked at
MissingFields_NoUser2(sessionId, topic, user1Data, user2Data) ==
    ~Truthy(sessionId) \/ ~Truthy(topic) \/ ~Truthy(user1Data)

\* !sessionId || !topic || !user1Data || !user2Data
MissingFields(sessionId, topic, user1Data, user2Data) ==
    ~Truthy(sessionId) \/ ~Truthy(topic) \/ ~Truthy(user1Data) \/ ~Truthy(user2Data)

\* res.status(status).json({ error })
ErrorResponse(status, text) == [type |-> "http", status |-> status, error |-> text]

\* the object start-negotiation stores; round is the loop variable of
\* runNegotiation, rounds is moderator.negotiationRounds.length, pc the
\* call runNegotiation is waiting for
NewNegotiation(sessionId) ==
    [sessionId |-> sessionId, status |-> "active", createdAt |-> now,
     round |-> 0, rounds |-> 0, pc |-> "proposal1"]

StartNegotiation(sessionId, topic, user1Data, user2Data) ==
    /\ ~idle
    /\ negPre' = [activeNegotiations |-> activeNegotiations, heap |-> heap]
    /\ ev' = [type |-> "start-negotiation", sessionId |-> sessionId, topic |-> topic,
              user1Data |-> user1Data, user2Data |-> user2Data]
    /\ IF MissingFields(sessionId, topic, user1Data, user2Data)
       THEN /\ out' = <<ErrorResponse(400, "Missing required fields")>>
            /\ UNCHANGED <<activeNegotiations, heap>>
       ELSE IF user1Data # "full" \/ user2Data # "full"
       THEN \* new AIAdvocate(...) reads userInputs.objectives and throws
            /\ out' = <<ErrorResponse(500, "Negotiation failed to start")>>
            /\ UNCHANGED <<activeNegotiations, heap>>
       ELSE /\ Len(heap) < MaxStarts
            /\ heap' = Append(heap, NewNegotiation(sessionId))
            /\ activeNegotiations' = MapSet(activeNegotiations, sessionId, Len(heap) + 1)
            /\ out' = << >>
    /\ idle' = (heap' = heap)
    /\ UNCHANGED <<now, nticks>>
    /\ UNCHANGED serverVars

\* variant: a call that throws leaves the status as it is
AfterCall_KeepStatus(n, ok) ==
    IF ~ok THEN [n EXCEPT !.pc = "thrown"]
    ELSE IF n.pc = "proposal1" THEN [n EXCEPT !.pc = "proposal2"]
    ELSE IF n.pc = "proposal2" THEN [n EXCEPT !.pc = "moderation"]
    ELSE IF n.pc = "moderation"
    THEN [n EXCEPT !.rounds = @ + 1, !.round = @ + 1,
                   !.pc = IF n.round + 1 < Rounds THEN "proposal1" ELSE "final"]
    ELSE [n EXCEPT !.status = "completed", !.pc = "returned"]

\* runNegotiation after the call it was waiting for has returned (ok) or
\* thrown
AfterCall(n, ok) ==
    IF ~ok THEN [n EXCEPT !.status = "failed", !.pc = "thrown"]
    ELSE IF n.pc = "proposal1" THEN [n EXCEPT !.pc = "proposal2"]
    ELSE IF n.pc = "proposal2" THEN [n EXCEPT !.pc = "moderation"]
    ELSE IF n.pc = "moderation"
    THEN [n EXCEPT !.rounds = @ + 1, !.round = @ + 1,
                   !.pc = IF n.round + 1 < Rounds THEN "proposal1" ELSE "final"]
    ELSE [n EXCEPT !.status = "completed", !.pc = "returned"]

\* one language-model call of the run of heap[id] ends; the request that
\* started the run is answered when the run has returned or thrown
RunStep(id, ok) ==
    /\ id \in 1..Len(heap)
    /\ heap[id].pc \in {"proposal1", "proposal2", "moderation", "final"}
    /\ ~idle
    /\ negPre' = [activeNegotiations |-> activeNegotiations, heap |-> heap]
    /\ ev' = [type |-> "call", id |-> id, step |-> heap[id].pc, ok |-> ok]
    /\ heap' = [heap EXCEPT ![id] = AfterCall(@, ok)]
    /\ out' = IF heap'[id].pc = "thrown"
              THEN <<ErrorResponse(500, "Negotiation failed to start")>>
              ELSE IF heap'[id].pc = "returned"
              THEN <<[type |-> "http", status |-> 200, success |-> TRUE,
                      sessionId |-> heap[id].sessionId, rounds |-> heap'[id].rounds]>>
              ELSE << >>
    /\ idle' = FALSE
    /\ UNCHANGED <<activeNegotiations, now, nticks>>
    /\ UNCHANGED serverVars

\* GET /api/negotiation-status/:sessionId
NegotiationStatus(sessionId) ==
    /\ ~idle
    /\ negPre' = [activeNegotiations |-> activeNegotiations, heap |-> heap]
    /\ ev' = [type |-> "negotiation-status", sessionId |-> sessionId]
    /\ out' = IF sessionId \notin DOMAIN activeNegotiations
              THEN <<ErrorResponse(404, "Negotiation not found")>>
              ELSE <<[type |-> "http", status |-> 200,
                      negotiation |-> heap[activeNegotiations[sessionId]].status,
                      rounds |-> heap[activeNegotiations[sessionId]].rounds]>>
    /\ idle' = TRUE
    /\ UNCHANGED <<activeNegotiations, heap, now, nticks>>
    /\ UNCHANGED serverVars

\* GET /health
Health ==
    /\ ~idle
    /\ negPre' = [activeNegotiations |-> activeNegotiations, heap |-> heap]
    /\ ev' = [type |-> "health"]
    /\ out' = <<[type |-> "http", status |-> 200,
                 activeNegotiations |-> Cardinality(DOMAIN activeNegotiations)]>>
    /\ idle' = TRUE
    /\ UNCHANGED <<activeNegotiations, heap, now, nticks>>
    /\ UNCHANGED serverVars

\* now - negotiation.createdAt > 7200000
NegExpired(n, t) == t - n.createdAt > NegTTL

\* the cleanup timer
NegCleanup ==
    /\ ~idle
    /\ negPre' = [activeNegotiations |-> activeNegotiations, heap |-> heap]
    /\ ev' = [type |-> "negotiation-cleanup"]
    /\ activeNegotiations' =
          [k \in {x \in DOMAIN activeNegotiations :
                     ~NegExpired(heap[activeNegotiations[x]], now)}
             |-> activeNegotiations[k]]
    /\ out' = << >>
    /\ idle' = (activeNegotiations' = activeNegotiations)
    /\ UNCHANGED <<heap, now, nticks>>
    /\ UNCHANGED serverVars

\* wall-clock time passes between two events
NegTick(d) ==
    /\ nticks < MaxTicks
    /\ nticks' = nticks + 1
    /\ now' = now + d
    /\ ~idle
    /\ negPre' = [activeNegotiations |-> activeNegotiations, heap |-> heap]
    /\ ev' = [type |-> "tick"]
    /\ out' = << >>
    /\ idle' = FALSE
    /\ UNCHANGED <<activeNegotiations, heap>>
    /\ UNCHANGED serverVars

NextNegotiation ==
    \/ \E sessionId \in SessionIds \cup {Undefined}, topic \in {"T", Undefined},
          user1Data \in UserDatas \cup {Undefined},
          user2Data \in UserDatas \cup {Undefined} :
          StartNegotiation(sessionId, topic, user1Data, user2Data)
    \/ \E id \in 1..MaxStarts, ok \in BOOLEAN : RunStep(id, ok)
    \/ \E sessionId \in SessionIds : NegotiationStatus(sessionId)
    \/ Health
    \/ NegCleanup
    \/ \E d \in NegTickSteps : NegTick(d)

SpecNegotiation == Init /\ [][NextNegotiation]_vars

(* ====================================================================== *)
(* Properties.  They read the event handled last (ev), the store and the  *)
(* connections as it found them (pre), as it left them (sessions, conn)   *)
(* and the frames it wrote (out).                                         *)
(* ====================================================================== *)

FramesOfType(t) == SelectSeq(out, LAMBDA f : f.type = t)

\* number of frames of seq addressed to connection c
CountTo(seq, c) == Cardinality({i \in 1..Len(seq) : seq[i].to = c})

\* the positions of parts whose connection reference is c
Seats(parts, c) == {i \in 1..Len(parts) : parts[i].ws = c}

\* the positions of parts whose displayName is n
Named(parts, n) == {i \in 1..Len(parts) : parts[i].userName = n}

IsRequest == ev.type \in {"create_session", "join_session"}

\* the request addresses a session that was in the store
OnExisting == IsRequest /\ ev.sessionId \in DOMAIN pre.sessions

PreParts == pre.sessions[ev.sessionId].participants
PostParts == sessions[ev.sessionId].participants

(* C1 -- Capacity: every session in the store has at most 2 participants,
   and a join_session whose userName matches no participant of a session
   that already has 2 participants is answered with error "Session is full"
   and leaves the participant list (and the store) unchanged. *)
C1_Capacity ==
    /\ \A k \in DOMAIN sessions : Len(sessions[k].participants) <= 2
    /\ (/\ ev.type = "join_session"
        /\ OnExisting
        /\ Len(PreParts) = 2
        /\ Named(PreParts, ev.userName) = {})
       => /\ out = <<[to |-> ev.ws, type |-> "error", message |-> "Session is full"]>>
          /\ sessions = pre.sessions

C1_Witness ==
    /\ ev.type = "join_session"
    /\ OnExisting
    /\ Len(PreParts) = 2
    /\ Named(PreParts, ev.userName) = {}
    /\ PreParts[1].ws # PreParts[2].ws
    /\ ev.ws \notin {PreParts[1].ws, PreParts[2].ws}

(* C2 (as stated) -- Reconnect idempotence: a create_session or a
   join_session whose userName equals the displayName of a participant
   already in the target session replaces that participant's connection
   reference with the calling connection and does not increase the
   participant count. *)
C2_AsStated ==
    (OnExisting /\ Named(PreParts, ev.userName) # {})
    => /\ Len(PostParts) <= Len(PreParts)
       /\ \A i \in Named(PreParts, ev.userName) : PostParts[i].ws = ev.ws

(* C2 (amended) -- a join_session whose userName equals the displayName of
   a participant of the target session, or a create_session whose userName
   equals the displayName of a participant that is flagged isCreator,
   replaces that participant's connection reference with the calling
   connection; a create_session that matches only a participant that is
   not the creator is answered with error "Session already exists" and
   replaces nothing; in every one of these cases the participant count
   stays the same. *)
C2_ReconnectIdempotence ==
    (OnExisting /\ Named(PreParts, ev.userName) # {})
    => /\ Len(PostParts) = Len(PreParts)
       /\ \A i \in Named(PreParts, ev.userName) :
             IF ev.type = "join_session" \/ PreParts[i].isCreator
             THEN PostParts[i].ws = ev.ws
             ELSE /\ PostParts = PreParts
                  /\ out = <<[to |-> ev.ws, type |-> "error",
                              message |-> "Session already exists"]>>

\* a reconnect that moves the seat to another connection
C2_Witness ==
    /\ OnExisting
    /\ \E i \in Named(PreParts, ev.userName) :
          /\ PreParts[i].ws # ev.ws
          /\ PostParts[i].ws = ev.ws
    /\ Len(PreParts) = 2

(* C3 -- Cleanup: once the close handler has run for the last connection
   that was bound to a session, the session is absent from the store; that
   is, after a close every session still in the store has a connection that
   was bound to it (by create_session or join_session) and whose close has
   not been handled. *)
C3_Cleanup ==
    ev.type = "close"
    => \A k \in DOMAIN sessions :
          \E c \in Conns : k \in everBound[c] /\ conn[c].readyState # CLOSED

(* C4 -- Expiry: after an expiry sweep at time now no session with
   now - createdAt > TTL is in the store, whatever its participant count
   and whether or not its participants' connections are open. *)
C4_Expiry ==
    ev.type = "sweep"
    => \A k \in DOMAIN sessions : ~(now - sessions[k].createdAt > TTL)

\* a sweep that deleted a session with a participant on an open connection
C4_Witness ==
    /\ ev.type = "sweep"
    /\ \E k \in ev.deleted :
          \E i \in 1..Len(pre.sessions[k].participants) :
             conn[pre.sessions[k].participants[i].ws].readyState = OPEN

\* the relay_message passed both checks of the handler: the sender is bound
\* and its session is in the store
RelayAccepted ==
    /\ ev.type = "relay_message"
    /\ pre.conn[ev.ws].sessionId \in DOMAIN pre.sessions
    /\ pre.conn[ev.ws].userName \in UserNames

(* C5 (as stated) -- Relay exclusion: for every relay_message the sender's
   own connection receives no message_received frame and receives
   message_sent exactly once. *)
C5_AsStated ==
    ev.type = "relay_message"
    => /\ CountTo(FramesOfType("message_received"), ev.ws) = 0
       /\ CountTo(FramesOfType("message_sent"), ev.ws) = 1

(* C5 (amended) -- for every relay_message the sender's own connection
   receives no message_received frame; for every relay_message sent by a
   connection that is bound to a session that is in the store, the sender
   receives message_sent exactly once (and nobody else receives it). *)
C5_RelayExclusion ==
    /\ ev.type = "relay_message"
       => CountTo(FramesOfType("message_received"), ev.ws) = 0
    /\ RelayAccepted
       => /\ CountTo(FramesOfType("message_sent"), ev.ws) = 1
          /\ Len(FramesOfType("message_sent")) = 1

\* the sender holds a seat of a session in which another connection holds
\* one too
C5_Witness ==
    /\ RelayAccepted
    /\ LET parts == pre.sessions[pre.conn[ev.ws].sessionId].participants
       IN /\ Seats(parts, ev.ws) # {}
          /\ \E i \in 1..Len(parts) : parts[i].ws # ev.ws
    /\ Len(FramesOfType("message_received")) > 0

(* C6 -- Relay delivery: a relay_message from a connection bound to a
   session in the store is forwarded as message_received, with the
   messageType and content of the request and with from equal to the
   sender's displayName, once for every participant of that session whose
   connection is open and is not the sender's, and to no connection that is
   not a participant of that session. *)
C6_RelayDelivery ==
    RelayAccepted
    => LET parts == pre.sessions[pre.conn[ev.ws].sessionId].participants
           rcv == FramesOfType("message_received")
       IN /\ \A i \in 1..Len(rcv) :
                /\ rcv[i].messageType = ev.messageType
                /\ rcv[i].content = ev.content
                /\ rcv[i].from = pre.conn[ev.ws].userName
                /\ Seats(parts, rcv[i].to) # {}
          /\ \A c \in Conns :
                CountTo(rcv, c) =
                   IF c # ev.ws /\ conn[c].readyState = OPEN
                   THEN Cardinality(Seats(parts, c)) ELSE 0

\* the sender and a peer with an open connection hold the two seats, and a
\* third connection that holds none is open
C6_Witness ==
    /\ RelayAccepted
    /\ ev.content = "m2"
    /\ LET parts == pre.sessions[pre.conn[ev.ws].sessionId].participants
       IN /\ Len(parts) = 2
          /\ Seats(parts, ev.ws) # {}
          /\ \E i \in 1..2 : parts[i].ws # ev.ws /\ conn[parts[i].ws].readyState = OPEN
          /\ \E c \in Conns : conn[c].readyState = OPEN /\ Seats(parts, c) = {}

\* the join_session was not answered with an error
JoinSucceeded ==
    /\ ev.type = "join_session"
    /\ FramesOfType("error") = << >>

(* C7 -- Join broadcast: after every successful join_session (new
   participant or reconnect) every participant of the session whose
   connection is open, the joiner and the pre-existing participant
   included, receives participant_joined with userName = the joiner's name,
   topic = the session's stored topic and participantCount = the number of
   participants after the join. *)
C7_JoinBroadcast ==
    JoinSucceeded
    => LET joined == FramesOfType("participant_joined")
       IN /\ ev.sessionId \in DOMAIN sessions
          /\ Seats(PostParts, ev.ws) # {}
          /\ \A c \in Conns :
                CountTo(joined, c) =
                   IF conn[c].readyState = OPEN
                   THEN Cardinality(Seats(PostParts, c)) ELSE 0
          /\ \A i \in 1..Len(joined) :
                /\ joined[i].userName = ev.userName
                /\ joined[i].topic = sessions[ev.sessionId].topic
                /\ joined[i].participantCount = Len(PostParts)

\* a second participant joins a session whose first participant is on
\* another, open connection, with a topic that is not the stored one
C7_Witness ==
    /\ JoinSucceeded
    /\ OnExisting
    /\ Len(PreParts) = 1 /\ Len(PostParts) = 2
    /\ PostParts[1].ws # ev.ws
    /\ conn[PostParts[1].ws].readyState = OPEN
    /\ ev.topic \in Topics /\ ev.topic # sessions[ev.sessionId].topic

(* C8 -- Join on an absent session: a join_session for a sessionId that is
   not in the store and that carries a topic creates the session with that
   topic and createdAt = now, with the joiner as its only participant
   (isCreator = false), and sends participant_joined; without a topic it is
   answered with error "Session not found or expired" and leaves the store
   and the caller's binding unchanged. *)
C8_JoinAbsent ==
    (ev.type = "join_session" /\ ev.sessionId \notin DOMAIN pre.sessions)
    => IF ev.topic \in Topics
       THEN /\ DOMAIN sessions = (DOMAIN pre.sessions) \cup {ev.sessionId}
            /\ \A k \in DOMAIN pre.sessions : sessions[k] = pre.sessions[k]
            /\ sessions[ev.sessionId].topic = ev.topic
            /\ sessions[ev.sessionId].createdAt = now
            /\ sessions[ev.sessionId].participants =
                  <<[userName |-> ev.userName, ws |-> ev.ws, isCreator |-> FALSE]>>
            /\ out = <<[to |-> ev.ws, type |-> "participant_joined",
                        userName |-> ev.userName, topic |-> ev.topic,
                        participantCount |-> 1]>>
       ELSE /\ out = <<[to |-> ev.ws, type |-> "error",
                        message |-> "Session not found or expired"]>>
            /\ sessions = pre.sessions
            /\ conn[ev.ws] = pre.conn[ev.ws]

\* both branches: the recreation at a time other than 0 next to another
\* session, and the refusal for a caller that is bound already
C8_WitnessRecreate ==
    /\ ev.type = "join_session" /\ ev.sessionId \notin DOMAIN pre.sessions
    /\ ev.topic \in Topics
    /\ now > 0
    /\ pre.conn[ev.ws].sessionId \in SessionIds

C8_WitnessRefuse ==
    /\ ev.type = "join_session" /\ ev.sessionId \notin DOMAIN pre.sessions
    /\ ev.topic = Undefined
    /\ pre.conn[ev.ws].sessionId \in SessionIds
    /\ DOMAIN pre.sessions # {}

(* C9 -- Create on an absent session: a create_session for a sessionId that
   is not in the store adds a session with the supplied topic and exactly
   one participant (the caller, isCreator = true), binds the calling
   connection to (sessionId, userName) and replies
   session_created{sessionId, topic} to the caller only. *)
C9_CreateAbsent ==
    (ev.type = "create_session" /\ ev.sessionId \notin DOMAIN pre.sessions)
    => /\ DOMAIN sessions = (DOMAIN pre.sessions) \cup {ev.sessionId}
       /\ \A k \in DOMAIN pre.sessions : sessions[k] = pre.sessions[k]
       /\ sessions[ev.sessionId].topic = ev.topic
       /\ sessions[ev.sessionId].participants =
             <<[userName |-> ev.userName, ws |-> ev.ws, isCreator |-> TRUE]>>
       /\ conn[ev.ws].sessionId = ev.sessionId
       /\ conn[ev.ws].userName = ev.userName
       /\ \A c \in Conns \ {ev.ws} : conn[c] = pre.conn[c]
       /\ out = <<[to |-> ev.ws, type |-> "session_created",
                   sessionId |-> ev.sessionId, topic |-> ev.topic]>>

\* a second session is created, with another topic, while another
\* connection is open
C9_Witness ==
    /\ ev.type = "create_session" /\ ev.sessionId \notin DOMAIN pre.sessions
    /\ \E k \in DOMAIN pre.sessions : pre.sessions[k].topic # ev.topic
    /\ \E c \in Conns \ {ev.ws} : conn[c].readyState = OPEN

\* the create_session addresses a session in the store that has a
\* participant flagged isCreator with the caller's userName
CreatorReconnect ==
    /\ ev.type = "create_session"
    /\ OnExisting
    /\ \E i \in 1..Len(PreParts) :
          PreParts[i].isCreator /\ PreParts[i].userName = ev.userName

(* C10 -- Creator reconnect: a create_session for a session in the store
   whose participants include one with isCreator = true and the same
   userName replaces that participant's connection with the caller, binds
   the caller and replies session_created with the session's stored topic
   (the topic supplied in the call is discarded); the participant count,
   the topic and createdAt of the session are unchanged. *)
C10_CreatorReconnect ==
    CreatorReconnect
    => /\ Len(PostParts) = Len(PreParts)
       /\ \A i \in 1..Len(PreParts) :
             IF PreParts[i].isCreator /\ PreParts[i].userName = ev.userName
             THEN PostParts[i] = [PreParts[i] EXCEPT !.ws = ev.ws]
             ELSE PostParts[i] = PreParts[i]
       /\ sessions[ev.sessionId].topic = pre.sessions[ev.sessionId].topic
       /\ sessions[ev.sessionId].createdAt = pre.sessions[ev.sessionId].createdAt
       /\ conn[ev.ws].sessionId = ev.sessionId
       /\ conn[ev.ws].userName = ev.userName
       /\ out = <<[to |-> ev.ws, type |-> "session_created",
                   sessionId |-> ev.sessionId,
                   topic |-> pre.sessions[ev.sessionId].topic]>>

\* the creator returns on another connection, with another topic, to a
\* session that has a second participant
C10_Witness ==
    /\ CreatorReconnect
    /\ ev.topic # pre.sessions[ev.sessionId].topic
    /\ Len(PreParts) = 2
    /\ \E i \in 1..2 : PreParts[i].isCreator /\ PreParts[i].ws # ev.ws

\* the create_session addresses a session in the store that has no
\* participant flagged isCreator with the caller's userName
CreateConflict ==
    /\ ev.type = "create_session"
    /\ OnExisting
    /\ ~CreatorReconnect

(* C11 -- Create conflict: a create_session for a session in the store that
   has no participant with isCreator = true and the caller's userName is
   answered with error "Session already exists" (to the caller, and nothing
   else is sent); the store and the caller's binding are as before. *)
C11_CreateConflict ==
    CreateConflict
    => /\ out = <<[to |-> ev.ws, type |-> "error",
                   message |-> "Session already exists"]>>
       /\ sessions = pre.sessions
       /\ conn[ev.ws] = pre.conn[ev.ws]

\* the caller is bound already and uses the name of a participant that is
\* not the creator
C11_Witness ==
    /\ CreateConflict
    /\ pre.conn[ev.ws].sessionId \in SessionIds
    /\ \E i \in Named(PreParts, ev.userName) : ~PreParts[i].isCreator

\* a create_session with the userName of the session's creator, sent from
\* a connection that is not bound yet, after a connection bound to that
\* session under that name has had its close handled
CreatorReturns ==
    /\ ev.type = "create_session"
    /\ OnExisting
    /\ creatorName[ev.sessionId] = ev.userName
    /\ pre.conn[ev.ws].sessionId = Null
    /\ \E c \in Conns \ {ev.ws} :
          /\ conn[c].readyState = CLOSED
          /\ conn[c].sessionId = ev.sessionId
          /\ conn[c].userName = ev.userName

(* C12 -- Creator return after disconnect: when the connection of a
   session's creator has closed, a create_session sent from a new connection
   with the same sessionId and userName is answered with session_created
   for that sessionId, also when another participant has kept the session
   in the store. *)
C12_CreatorReturn ==
    CreatorReturns
    => /\ Len(out) = 1
       /\ out[1].to = ev.ws
       /\ out[1].type = "session_created"
       /\ out[1].sessionId = ev.sessionId

\* the close handled last is that of a connection that held exactly one of
\* the two seats of session k
ClosedOneOfTwo(k) ==
    /\ ev.type = "close"
    /\ k \in DOMAIN pre.sessions
    /\ Len(pre.sessions[k].participants) = 2
    /\ Cardinality(Seats(pre.sessions[k].participants, ev.ws)) = 1

\* the participant of pre.sessions[k] that is not on the closed connection
Remaining(k) ==
    LET parts == pre.sessions[k].participants
    IN parts[CHOOSE i \in 1..2 : parts[i].ws # ev.ws]

(* C13 -- Disconnect with a peer remaining: when the connection of one
   participant of a two-participant session closes, the remaining
   participant, if its connection is open, receives participant_left with
   the userName of the closed connection (and nothing else is sent), and the
   session stays in the store with exactly the remaining participant; a
   session whose only participant is on the closing connection is removed
   by that close, and a close of a connection that holds no seat of a
   session does not remove it. *)
C13_DisconnectWithPeer ==
    /\ \A k \in DOMAIN pre.sessions :
          ClosedOneOfTwo(k)
          => /\ k \in DOMAIN sessions
             /\ sessions[k].participants = <<Remaining(k)>>
             /\ out = IF conn[Remaining(k).ws].readyState = OPEN
                      THEN <<[to |-> Remaining(k).ws, type |-> "participant_left",
                              userName |-> pre.conn[ev.ws].userName]>>
                      ELSE << >>
    /\ \A k \in DOMAIN pre.sessions :
          (ev.type = "close" /\ Len(pre.sessions[k].participants) = 1)
          => (k \notin DOMAIN sessions
                <=> pre.sessions[k].participants[1].ws = ev.ws)

\* the same for a closing connection whose binding names the session it
\* holds the seat in
C13_BoundOnly ==
    /\ \A k \in DOMAIN pre.sessions :
          (ClosedOneOfTwo(k) /\ pre.conn[ev.ws].sessionId = k)
          => /\ k \in DOMAIN sessions
             /\ sessions[k].participants = <<Remaining(k)>>
             /\ out = IF conn[Remaining(k).ws].readyState = OPEN
                      THEN <<[to |-> Remaining(k).ws, type |-> "participant_left",
                              userName |-> pre.conn[ev.ws].userName]>>
                      ELSE << >>
    /\ \A k \in DOMAIN pre.sessions :
          (/\ ev.type = "close"
           /\ Len(pre.sessions[k].participants) = 1
           /\ pre.conn[ev.ws].sessionId = k)
          => (k \notin DOMAIN sessions
                <=> pre.sessions[k].participants[1].ws = ev.ws)

(* C14 -- No empty sessions: between any two events every session in the
   store has at least one participant; a session whose participant list
   becomes empty is deleted in the same step. *)
C14_NoEmptySessions ==
    \A k \in DOMAIN sessions : Len(sessions[k].participants) >= 1

\* a close that took the last participant out of a session, next to another
\* session that stays
C14_Witness ==
    /\ ev.type = "close"
    /\ \E k \in DOMAIN pre.sessions :
          /\ k \notin DOMAIN sessions
          /\ \A i \in 1..Len(pre.sessions[k].participants) :
                pre.sessions[k].participants[i].ws = ev.ws
    /\ DOMAIN sessions # {}

\* the positions of parts that are flagged isCreator
Creators(parts) == {i \in 1..Len(parts) : parts[i].isCreator}

(* C15 -- Single creator: every session has at most one participant with
   isCreator = true, and that participant carries the userName of the
   create_session that created the session; a session that no
   create_session created has none, and no join_session or reconnect
   changes which participants are flagged. *)
C15_SingleCreator ==
    /\ \A k \in DOMAIN sessions :
          LET parts == sessions[k].participants
          IN /\ Cardinality(Creators(parts)) <= 1
             /\ \A i \in Creators(parts) : parts[i].userName = creatorName[k]
    /\ (ev.type = "join_session" /\ OnExisting /\ ev.sessionId \in DOMAIN sessions)
       => /\ Len(PostParts) >= Len(PreParts)
          /\ \A i \in 1..Len(PreParts) : PostParts[i].isCreator = PreParts[i].isCreator
          /\ \A i \in (1..Len(PostParts)) \ (1..Len(PreParts)) : ~PostParts[i].isCreator

\* a second participant has joined the creator, and a session recreated by
\* a join is in the store too
C15_Witness ==
    /\ ev.type = "join_session"
    /\ \E k \in DOMAIN sessions :
          /\ Len(sessions[k].participants) = 2
          /\ Cardinality(Creators(sessions[k].participants)) = 1
    /\ \E k \in DOMAIN sessions : creatorName[k] = Null

(* C16 -- Relay failure paths: a relay_message from a connection with no
   boundSessionId or no displayName is answered with error "Not connected
   to a session"; one from a bound connection whose session is not in the
   store is answered with error "Session not found"; in both cases that
   error, sent to the sender, is the only frame written: no
   message_received and no message_sent. *)
C16_RelayFailure ==
    ev.type = "relay_message"
    => LET b == pre.conn[ev.ws]
       IN /\ (~Truthy(b.sessionId) \/ ~Truthy(b.userName))
             => out = <<[to |-> ev.ws, type |-> "error",
                         message |-> "Not connected to a session"]>>
          /\ (Truthy(b.sessionId) /\ Truthy(b.userName)
                /\ b.sessionId \notin DOMAIN pre.sessions)
             => out = <<[to |-> ev.ws, type |-> "error",
                         message |-> "Session not found"]>>

\* the sender's session has been deleted by the sweep
C16_Witness ==
    /\ ev.type = "relay_message"
    /\ pre.conn[ev.ws].sessionId \in SessionIds \ DOMAIN pre.sessions
    /\ now > TTL

\* the sender was never bound, and another connection is bound and open
C16_WitnessUnbound ==
    /\ ev.type = "relay_message"
    /\ pre.conn[ev.ws].sessionId = Null
    /\ \E c \in Conns : conn[c].readyState = OPEN /\ conn[c].sessionId \in DOMAIN sessions

(* C17 -- Malformed frame: a payload that cannot be decoded is answered with
   error "Invalid message format", sent to the sender only; the connection
   stays open, every binding and the store are unchanged, and the
   connection can still relay and (while the step budget lasts) create and
   join. *)
C17_Malformed ==
    ev.type = "malformed"
    => /\ out = <<[to |-> ev.ws, type |-> "error",
                   message |-> "Invalid message format"]>>
       /\ conn = pre.conn
       /\ conn[ev.ws].readyState = OPEN
       /\ sessions = pre.sessions
       /\ ENABLED (\E messageType \in MessageTypes, content \in Contents :
                     RelayMessage(ev.ws, messageType, content))
       /\ nsteps < MaxSteps
          => /\ ENABLED (\E sessionId \in SessionIds, topic \in Topics,
                            userName \in UserNames :
                            CreateSession(ev.ws, sessionId, topic, userName))
             /\ ENABLED (\E sessionId \in SessionIds, topic \in Topics,
                            userName \in UserNames :
                            JoinSession(ev.ws, sessionId, userName, topic))

\* the sender is bound to a session in which another participant sits
C17_Witness ==
    /\ ev.type = "malformed"
    /\ conn[ev.ws].sessionId \in DOMAIN sessions
    /\ Len(sessions[conn[ev.ws].sessionId].participants) = 2
    /\ nsteps < MaxSteps

(* C18 -- Ping: an inbound ping frame on any connection, bound or unbound,
   is answered with exactly one pong to that connection, and leaves the
   store and every connection's binding unchanged. *)
C18_Ping ==
    ev.type = "ping"
    => /\ out = <<[to |-> ev.ws, type |-> "pong"]>>
       /\ sessions = pre.sessions
       /\ conn = pre.conn

\* a ping of a bound connection that shares its session with another open
\* connection, while an unbound connection is open as well
C18_Witness ==
    /\ ev.type = "ping"
    /\ conn[ev.ws].sessionId \in DOMAIN sessions
    /\ \E c \in Conns \ {ev.ws} :
          /\ conn[c].readyState = OPEN
          /\ Seats(sessions[conn[ev.ws].sessionId].participants, c) # {}
    /\ \E c \in Conns : conn[c].readyState = OPEN /\ conn[c].sessionId = Null

\* a ping of a connection that was never bound
C18_WitnessUnbound ==
    /\ ev.type = "ping"
    /\ conn[ev.ws].sessionId = Null
    /\ DOMAIN sessions # {}

\* the request handled last is one the handlers refuse: a create conflict,
\* a join of an absent session without a topic, a join of a full session
\* under a new name, a relay of an unbound connection or for a session that
\* is not in the store
FailingRequest ==
    \/ CreateConflict
    \/ /\ ev.type = "join_session"
       /\ ev.sessionId \notin DOMAIN pre.sessions
       /\ ev.topic \notin Topics
    \/ /\ ev.type = "join_session"
       /\ OnExisting
       /\ Len(PreParts) = 2
       /\ Named(PreParts, ev.userName) = {}
    \/ ev.type = "relay_message" /\ ~RelayAccepted

(* C19 -- Failure containment: every failing create_session, join_session
   or relay_message (and every such request that is answered with an error
   at all) produces exactly one frame, an error sent to the connection that
   issued the request; no other connection receives a frame, and no session
   and no binding is modified. *)
C19_FailureContainment ==
    (\/ FailingRequest
     \/ /\ ev.type \in {"create_session", "join_session", "relay_message"}
        /\ FramesOfType("error") # << >>)
    => /\ Len(out) = 1
       /\ out[1].type = "error"
       /\ out[1].to = ev.ws
       /\ sessions = pre.sessions
       /\ conn = pre.conn

\* a refused create_session for a session whose participants sit on other,
\* open connections
C19_Witness ==
    /\ CreateConflict
    /\ Len(PreParts) = 2
    /\ \A i \in 1..2 : PreParts[i].ws # ev.ws /\ conn[PreParts[i].ws].readyState = OPEN

(* C20 -- Binding lifecycle: once a connection's boundSessionId has been set
   to a session id by a create or join, it is only ever re-set to that same
   session id; a connection bound to session X never becomes bound to a
   different session Y. *)
C20_BindingLifecycle ==
    /\ \A c \in Conns : Cardinality(everBound[c]) <= 1
    /\ \A c \in Conns :
          pre.conn[c].sessionId \in SessionIds
          => conn[c].sessionId = pre.conn[c].sessionId

(* C21 -- Per-session ordering: for any two relay_message requests of the
   same connection, a peer that receives both receives the message_received
   frames in the order the sender sent the requests, each with the content
   of its request. *)
C21_Ordering ==
    /\ \A i \in 1..Len(delivered) :
          /\ delivered[i].n \in 1..Len(sent)
          /\ delivered[i].content = sent[delivered[i].n].content
    /\ \A i, j \in 1..Len(delivered) :
          (/\ i < j
           /\ delivered[i].to = delivered[j].to
           /\ sent[delivered[i].n].ws = sent[delivered[j].n].ws)
          => delivered[i].n <= delivered[j].n

\* a peer has received two frames of the same sender, with different
\* contents, and another event has happened as well
C21_Witness ==
    /\ nsteps = MaxSteps
    /\ \E i, j \in 1..Len(delivered) :
          /\ i < j
          /\ delivered[i].to = delivered[j].to
          /\ delivered[i].n < delivered[j].n
          /\ sent[delivered[i].n].ws = sent[delivered[j].n].ws
          /\ delivered[i].content = "m2" /\ delivered[j].content = "m1"

\* the POST /api/start-negotiation handled last lacks one of the four
\* fields
StartMissing ==
    /\ ev.type = "start-negotiation"
    /\ \/ ev.sessionId = Undefined \/ ev.topic = Undefined
       \/ ev.user1Data = Undefined \/ ev.user2Data = Undefined

(* C22 -- Negotiation request validation: a POST /api/start-negotiation in
   which any of sessionId, topic, user1Data or user2Data is missing is
   answered with status 400 and error "Missing required fields"; no entry is
   stored in activeNegotiations, no negotiation object is made and no round
   of any negotiation is run. *)
C22_StartValidation ==
    StartMissing
    => /\ out = <<[type |-> "http", status |-> 400,
                   error |-> "Missing required fields"]>>
       /\ activeNegotiations = negPre.activeNegotiations
       /\ heap = negPre.heap

\* only user2Data is missing, while a negotiation under the same sessionId
\* is running
C22_Witness ==
    /\ StartMissing
    /\ ev.sessionId \in DOMAIN activeNegotiations
    /\ heap[activeNegotiations[ev.sessionId]].rounds = 1
    /\ ev.topic = "T" /\ ev.user1Data = "full" /\ ev.user2Data = Undefined

(* C23 -- Unknown message kinds: an inbound frame that decodes but whose
   type is none of create_session, join_session, relay_message, ping
   produces no outbound frame at all and leaves the store and all bindings
   unchanged. *)
C23_UnknownDropped ==
    ev.type = "unknown"
    => /\ out = << >>
       /\ sessions = pre.sessions
       /\ conn = pre.conn

\* the sender shares a session with another open connection
C23_Witness ==
    /\ ev.type = "unknown"
    /\ conn[ev.ws].sessionId \in DOMAIN sessions
    /\ \E c \in Conns \ {ev.ws} :
          /\ conn[c].readyState = OPEN
          /\ Seats(sessions[conn[ev.ws].sessionId].participants, c) # {}

(* C24 -- Sweep frame condition: an expiry sweep at time now deletes
   exactly the sessions with now - createdAt > TTL; every session with
   now - createdAt <= TTL (age exactly TTL included) stays in the store with
   its topic, createdAt and participants unchanged; the sweep changes no
   binding and sends no frame. *)
C24_SweepFrame ==
    ev.type = "sweep"
    => /\ DOMAIN sessions =
             {k \in DOMAIN pre.sessions : now - pre.sessions[k].createdAt <= TTL}
       /\ \A k \in DOMAIN sessions : sessions[k] = pre.sessions[k]
       /\ ev.deleted = (DOMAIN pre.sessions) \ (DOMAIN sessions)
       /\ conn = pre.conn
       /\ out = << >>

\* a sweep that finds a session of age exactly TTL, with a participant
C24_Witness ==
    /\ ev.type = "sweep"
    /\ \E k \in DOMAIN pre.sessions :
          /\ now - pre.sessions[k].createdAt = TTL
          /\ Len(pre.sessions[k].participants) = 2

\* a sweep that deletes one session and keeps a younger one
C24_WitnessMixed ==
    /\ ev.type = "sweep"
    /\ ev.deleted # {}
    /\ DOMAIN sessions # {}

(* C25 -- Hard lifetime ceiling: createdAt is set when the session is
   created and no later event changes it: every session that an event finds
   in the store and leaves there has the createdAt it had. *)
C25_CreatedAtFixed ==
    \A k \in (DOMAIN pre.sessions) \cap (DOMAIN sessions) :
       sessions[k].createdAt = pre.sessions[k].createdAt

\* a reconnect or a join to a session created at an earlier time
C25_Witness ==
    /\ OnExisting
    /\ ev.sessionId \in DOMAIN sessions
    /\ PostParts # PreParts
    /\ now > sessions[ev.sessionId].createdAt

(* C26 -- Keep-alive broadcast: a keep-alive tick sends one
   ping{timestamp} to every open connection, bound to a session or not; a
   send that fails for one connection does not keep the ping from the other
   open connections; the tick changes neither the store nor a binding. *)
C26_KeepAlive ==
    ev.type = "keepalive"
    => /\ \A c \in Conns :
             Cardinality({i \in DOMAIN out : out[i].to = c}) =
                IF pre.conn[c].readyState = OPEN /\ c \notin ev.fails THEN 1 ELSE 0
       /\ \A i \in DOMAIN out :
             out[i] = [to |-> out[i].to, type |-> "ping", timestamp |-> now]
       /\ sessions = pre.sessions
       /\ conn = pre.conn

\* the send to the first socket fails; a bound and an unbound socket after
\* it are sent the ping
C26_Witness ==
    /\ ev.type = "keepalive"
    /\ ev.fails # {}
    /\ \E c, d \in Conns :
          /\ \A x \in ev.fails : x < c /\ x < d
          /\ Truthy(conn[c].sessionId) /\ ~Truthy(conn[d].sessionId)
          /\ \E i, j \in DOMAIN out : out[i].to = c /\ out[j].to = d

(* C27 -- Fan-out failure isolation: when participant_joined,
   participant_left or message_received is broadcast and the send to one
   participant fails, every other participant with an open connection still
   receives the frame and, for a relay, the sender still receives
   message_sent. *)
C27_FanOutIsolation ==
    "thrown" \in DOMAIN ev
    => LET sid == IF ev.type = "join_session" THEN ev.sessionId
                  ELSE pre.conn[ev.ws].sessionId
           frameType == IF ev.type = "join_session" THEN "participant_joined"
                        ELSE IF ev.type = "close" THEN "participant_left"
                        ELSE "message_received"
           parts == sessions[sid].participants
       IN /\ \A i \in 1..Len(parts) :
                (/\ conn[parts[i].ws].readyState = OPEN
                 /\ parts[i].ws # ev.thrown
                 /\ ev.type = "relay_message" => parts[i].ws # ev.ws)
                => \E k \in DOMAIN out :
                      out[k].to = parts[i].ws /\ out[k].type = frameType
          /\ ev.type = "relay_message"
             => \E k \in DOMAIN out : out[k].to = ev.ws /\ out[k].type = "message_sent"

(* C28 -- Identity preserved on reconnect: when a join_session or
   create_session names a participant of the session, nothing of the session
   changes but that participant's connection reference: its displayName,
   its isCreator flag and its position are as before, and so are the other
   participants, the topic and createdAt. *)
C28_IdentityPreserved ==
    (OnExisting /\ Named(PreParts, ev.userName) # {})
    => /\ ev.sessionId \in DOMAIN sessions
       /\ sessions[ev.sessionId] = [pre.sessions[ev.sessionId] EXCEPT !.participants = PostParts]
       /\ Len(PostParts) = Len(PreParts)
       /\ \A i \in 1..Len(PreParts) :
             IF PreParts[i].userName = ev.userName
             THEN PostParts[i] \in {PreParts[i], [PreParts[i] EXCEPT !.ws = ev.ws]}
             ELSE PostParts[i] = PreParts[i]

\* the creator, first of two participants, rejoins through join_session
\* on another connection
C28_Witness ==
    /\ OnExisting
    /\ ev.type = "join_session"
    /\ Len(PreParts) = 2
    /\ PreParts[1].userName = ev.userName
    /\ PreParts[1].isCreator
    /\ PreParts[1].ws # ev.ws
    /\ ev.sessionId \in DOMAIN sessions
    /\ PostParts[1].ws = ev.ws

(* C29 -- Unique names per session: in every reachable state no two
   participants of one session have the same displayName. *)
C29_UniqueNames ==
    \A k \in DOMAIN sessions :
       \A i, j \in 1..Len(sessions[k].participants) :
          sessions[k].participants[i].userName = sessions[k].participants[j].userName
          => i = j

\* a participant that is not the creator has joined again under its name,
\* the session having room for one more
C29_Witness ==
    /\ OnExisting
    /\ JoinSucceeded
    /\ Len(PreParts) = 1
    /\ ~PreParts[1].isCreator
    /\ PreParts[1].userName = ev.userName

(* C30 -- Disconnect removes by connection identity: the close of a bound
   connection removes from its session exactly the participants whose
   connection reference is that connection; a participant of the same
   displayName whose connection reference is another, newer connection
   stays; the session is deleted when nobody stays. *)
C30_RemoveByIdentity ==
    (/\ ev.type = "close"
     /\ Truthy(pre.conn[ev.ws].sessionId) /\ Truthy(pre.conn[ev.ws].userName)
     /\ pre.conn[ev.ws].sessionId \in DOMAIN pre.sessions)
    => LET sid == pre.conn[ev.ws].sessionId
           stay == SelectSeq(pre.sessions[sid].participants, LAMBDA p : p.ws # ev.ws)
       IN /\ IF stay = << >>
             THEN sid \notin DOMAIN sessions
             ELSE /\ sid \in DOMAIN sessions
                  /\ sessions[sid] = [pre.sessions[sid] EXCEPT !.participants = stay]
          /\ \A k \in (DOMAIN pre.sessions) \ {sid} :
                k \in DOMAIN sessions /\ sessions[k] = pre.sessions[k]

\* the closed connection had the name of a participant whose connection
\* reference is a newer connection, and that participant stays
C30_Witness ==
    /\ ev.type = "close"
    /\ Truthy(pre.conn[ev.ws].sessionId)
    /\ pre.conn[ev.ws].sessionId \in DOMAIN sessions
    /\ \E i \in 1..Len(sessions[pre.conn[ev.ws].sessionId].participants) :
          LET p == sessions[pre.conn[ev.ws].sessionId].participants[i]
          IN p.userName = pre.conn[ev.ws].userName /\ p.ws # ev.ws

(* C31 -- Close handling is idempotent: a second run of the close handler
   for a connection leaves the session store (and the bindings) as they
   were and does not throw, whether the session is still in the store, has
   been deleted, or has been created again under the same id. *)
C31_CloseIdempotent ==
    ev.type = "close_again"
    => /\ sessions = pre.sessions
       /\ conn = pre.conn
       /\ ~ev.threw

\* the second run finds the session of the connection deleted
C31_Witness ==
    /\ ev.type = "close_again"
    /\ Truthy(conn[ev.ws].sessionId)
    /\ conn[ev.ws].sessionId \notin DOMAIN sessions

\* the second run finds the session in the store, with a participant on an
\* open connection
C31_WitnessPresent ==
    /\ ev.type = "close_again"
    /\ Truthy(conn[ev.ws].sessionId)
    /\ conn[ev.ws].sessionId \in DOMAIN sessions
    /\ out # << >>

\* the creation times of the sessions of SpecLive
CreationTimes == {0, TTL, TTL + 1}

(* C32 -- Eventual deletion: with time advancing and the expiry sweep
   firing again and again, every session that is in the store (a session id
   with one createdAt) is eventually absent from it; no joins, reconnects or
   relays keep it in the store forever. *)
C32_EventualDeletion ==
    \A k \in SessionIds, t \in CreationTimes :
       (k \in DOMAIN sessions /\ sessions[k].createdAt = t)
       ~> ~(k \in DOMAIN sessions /\ sessions[k].createdAt = t)

\* a sweep deletes a session of two participants on open connections, one
\* of them having joined again after the creation
C32_Witness ==
    /\ ev.type = "sweep"
    /\ \E k \in ev.deleted :
          /\ Len(pre.sessions[k].participants) = 2
          /\ \A i \in 1..2 : conn[pre.sessions[k].participants[i].ws].readyState = OPEN
          /\ pre.sessions[k].participants[1].ws # 1

\* the calls runNegotiation waits for, in the order of one round
Running == {"proposal1", "proposal2", "moderation", "final"}

(* C33 -- Negotiation status lifecycle: a negotiation is stored with status
   'active' and keeps it while runNegotiation runs; a round is advocate 1's
   proposal, then advocate 2's proposal, then the moderation; after exactly
   3 rounds and the final agreement the status is 'completed' and the
   result reports rounds = 3; when a proposal, a moderation or the final
   agreement throws the status is 'failed'; no negotiation is 'active' after
   its runNegotiation has returned or thrown. *)
C33_StatusLifecycle ==
    /\ \A id \in 1..Len(heap) :
          LET n == heap[id]
          IN /\ n.pc \in Running <=> n.status = "active"
             /\ n.pc = "returned" <=> n.status = "completed"
             /\ n.pc = "thrown" <=> n.status = "failed"
             /\ n.pc \in {"proposal1", "proposal2", "moderation"} => n.rounds < 3
             /\ n.pc \in {"final", "returned"} => n.rounds = 3
    /\ (ev.type = "start-negotiation" /\ Len(heap) > Len(negPre.heap))
       => heap[Len(heap)] = [sessionId |-> ev.sessionId, status |-> "active",
                             createdAt |-> now, round |-> 0, rounds |-> 0,
                             pc |-> "proposal1"]
    /\ ev.type = "call"
       => LET was == negPre.heap[ev.id]
              n == heap[ev.id]
          IN /\ ~ev.ok => n.status = "failed" /\ n.rounds = was.rounds
             /\ (ev.ok /\ was.pc = "proposal1") => n.pc = "proposal2" /\ n.rounds = was.rounds
             /\ (ev.ok /\ was.pc = "proposal2") => n.pc = "moderation" /\ n.rounds = was.rounds
             /\ (ev.ok /\ was.pc = "moderation")
                => /\ n.rounds = was.rounds + 1
                   /\ n.pc = IF n.rounds = 3 THEN "final" ELSE "proposal1"
             /\ (ev.ok /\ was.pc = "final")
                => /\ n.status = "completed"
                   /\ out = <<[type |-> "http", status |-> 200, success |-> TRUE,
                               sessionId |-> n.sessionId, rounds |-> 3]>>
             /\ \A other \in 1..Len(heap) : other # ev.id => heap[other] = negPre.heap[other]

\* one negotiation has completed, another one, started under the same
\* sessionId, has failed in a later round
C33_Witness ==
    \E a, b \in 1..Len(heap) :
       /\ heap[a].status = "completed"
       /\ heap[b].status = "failed"
       /\ heap[b].rounds > 0
       /\ heap[a].sessionId = heap[b].sessionId

(* C34 -- participant_left is truthful: a participant_left{userName} frame
   is sent only when the close handler, in the same step, removed a
   participant of that userName from the session; a participant that is in
   the session after the close is never announced as having left. *)
C34_TruthfulLeft ==
    ev.type = "close"
    => \A f \in 1..Len(out) :
          out[f].type = "participant_left"
          => LET sid == pre.conn[ev.ws].sessionId
             IN /\ sid \in DOMAIN pre.sessions
                /\ \E i \in 1..Len(pre.sessions[sid].participants) :
                      /\ pre.sessions[sid].participants[i].ws = ev.ws
                      /\ pre.sessions[sid].participants[i].userName = out[f].userName
                /\ sid \in DOMAIN sessions
                   => Named(sessions[sid].participants, out[f].userName) = {}

(* C35 -- Binding consistency: in every reachable state, for every session
   S in the store and every participant P of S, the connection P refers to
   has boundSessionId = S.sessionId and displayName = P.displayName, both
   non-empty. *)
C35_BindingConsistency ==
    \A k \in DOMAIN sessions :
       \A i \in 1..Len(sessions[k].participants) :
          LET p == sessions[k].participants[i]
          IN /\ Truthy(conn[p.ws].sessionId)
             /\ Truthy(conn[p.ws].userName)
             /\ conn[p.ws].sessionId = sessions[k].sessionId
             /\ conn[p.ws].sessionId = k
             /\ conn[p.ws].userName = p.userName

(* C36 -- No dead participants: after the close handler has run for a
   connection no participant of any session in the store refers to that
   connection; every participant in the store refers to a connection whose
   close has not been handled. *)
C36_NoDeadParticipants ==
    \A k \in DOMAIN sessions :
       \A i \in 1..Len(sessions[k].participants) :
          conn[sessions[k].participants[i].ws].readyState # CLOSED

\* the same, for the connections that were bound to one session only
C36_ButForRebinding ==
    \A k \in DOMAIN sessions :
       \A i \in 1..Len(sessions[k].participants) :
          Cardinality(everBound[sessions[k].participants[i].ws]) <= 1
          => conn[sessions[k].participants[i].ws].readyState # CLOSED

(* C37 -- Only seated connections can relay: a relay_message causes
   message_received frames to be delivered only if the sending connection
   is, at that moment, the connection reference of a participant of the
   session; a connection whose seat was taken over can no longer inject
   messages into the session. *)
C37_SeatedRelay ==
    (RelayAccepted /\ FramesOfType("message_received") # << >>)
    => Seats(pre.sessions[pre.conn[ev.ws].sessionId].participants, ev.ws) # {}

(* C38 -- Session isolation of relays: whenever a message_received frame
   is delivered to a connection, that connection's boundSessionId equals
   the boundSessionId of the sending connection. *)
C38_RelayIsolation ==
    ev.type = "relay_message"
    => \A f \in 1..Len(out) :
          out[f].type = "message_received"
          => conn[out[f].to].sessionId = conn[ev.ws].sessionId

\* the same, for receivers that were bound to one session only
C38_ButForRebinding ==
    ev.type = "relay_message"
    => \A f \in 1..Len(out) :
          (out[f].type = "message_received" /\ Cardinality(everBound[out[f].to]) <= 1)
          => conn[out[f].to].sessionId = conn[ev.ws].sessionId

\* the session a join_session, relay_message or close is about
EventSession ==
    IF ev.type = "join_session" THEN ev.sessionId ELSE pre.conn[ev.ws].sessionId

\* connection d is bound to session k under the name of a participant of k
\* whose connection reference is another connection: d has lost that seat
\* to a reconnect
Displaced(d, k) ==
    /\ conn[d].sessionId = k
    /\ k \in DOMAIN sessions
    /\ \E i \in Named(sessions[k].participants, conn[d].userName) :
          sessions[k].participants[i].ws # d

(* C39 -- Seat takeover cuts off the old connection: once a reconnect has
   replaced a participant's connection reference with a new connection, the
   displaced connection receives no participant_joined, message_received or
   participant_left frame of that session, and the broadcasts to that
   participant go to the new connection. *)
C39_TakeoverCutsOff ==
    /\ ev.type \in {"join_session", "relay_message", "close"}
       => \A f \in 1..Len(out) :
             out[f].type \in {"participant_joined", "message_received", "participant_left"}
             => ~Displaced(out[f].to, EventSession)
    /\ (JoinSucceeded /\ OnExisting /\ Named(PreParts, ev.userName) # {})
       => /\ \A i \in Named(PostParts, ev.userName) : PostParts[i].ws = ev.ws
          /\ CountTo(FramesOfType("participant_joined"), ev.ws) >= 1

\* the same, for displaced connections that hold no other seat of the
\* session: the frames go to the connections the participants refer to
C39_ButForSecondSeat ==
    ev.type \in {"join_session", "relay_message", "close"}
    => \A f \in 1..Len(out) :
          out[f].type \in {"participant_joined", "message_received", "participant_left"}
          => /\ EventSession \in DOMAIN sessions
             /\ Seats(sessions[EventSession].participants, out[f].to) # {}

(* C40 -- Topic is fixed at creation: while a session exists its stored
   topic does not change; a join_session on an existing session that
   carries another topic does not overwrite it, a relay_message does not
   change it, and every participant_joined frame and every session_created
   frame of a reconnect carries the stored topic. *)
C40_TopicFixed ==
    /\ \A k \in (DOMAIN pre.sessions) \cap (DOMAIN sessions) :
          sessions[k].topic = pre.sessions[k].topic
    /\ ev.type = "join_session"
       => \A f \in 1..Len(out) :
             out[f].type = "participant_joined"
             => /\ ev.sessionId \in DOMAIN sessions
                /\ out[f].topic = sessions[ev.sessionId].topic
                /\ OnExisting => out[f].topic = pre.sessions[ev.sessionId].topic
    /\ CreatorReconnect
       => \A f \in 1..Len(out) :
             out[f].type = "session_created"
             => out[f].topic = pre.sessions[ev.sessionId].topic

\* a join_session that succeeds on a session in the store and carries a
\* topic other than the stored one
C40_Witness ==
    /\ JoinSucceeded
    /\ OnExisting
    /\ Truthy(ev.topic)
    /\ ev.topic # pre.sessions[ev.sessionId].topic
    /\ FramesOfType("participant_joined") # << >>

\* a creator reconnect whose create_session carries another topic
C40_WitnessCreate ==
    /\ CreatorReconnect
    /\ ev.topic # pre.sessions[ev.sessionId].topic
    /\ FramesOfType("session_created") # << >>

====
